---- MODULE Spec2Model ----
(***************************************************************************)
(* Conway's Game of Life on a toroidal grid (src/src/lib.rs) seeded from   *)
(* run-length-encoded patterns (src/src/parsers.rs).                       *)
(*                                                                         *)
(* A BitVec is a sequence of BOOLEAN; the bit at index idx (0-based in the *)
(* source) is element idx + 1 of the sequence.  A &str is a sequence of    *)
(* one-character strings.  u32 arithmetic is explicit: an addition or a    *)
(* multiplication that exceeds 2^32 - 1 panics in a build with overflow    *)
(* checks and wraps modulo 2^32 in a build without them; both outcomes are *)
(* successors of the step that overflows.                                  *)
(***************************************************************************)
EXTENDS Integers, Sequences, FiniteSets, TLC

VARIABLES
    width,       \* Universe.width
    height,      \* Universe.height
    cells,       \* Universe.cells
    status,      \* "ok", or "panicked" once a call has panicked
    called,      \* the public operation called last
    offset,      \* the cursor a pattern is grown at (grow_pattern's offset)
    alive_cells, \* the coordinates grown so far (grow_pattern's alive_cells)
    grown,       \* the symbols grow_pattern has been applied to, in order
    rle_string,  \* the text handed to the decoder
    returned     \* what the decoder's function called last returned for it

vars == <<width, height, cells, status, called, offset, alive_cells, grown,
          rle_string, returned>>

universe == <<width, height, cells, status, called>>
decoder == <<offset, alive_cells, grown, rle_string, returned>>

(***************************************************************************)
(* Bounds of the model.                                                    *)
(***************************************************************************)
MaxDim == 3          \* widths and heights are 0 .. MaxDim, and BigDim
MaxCells == 6        \* a store holds at most MaxCells cells
MaxCoord == 2        \* seeded coordinates are 0 .. MaxCoord
MaxSeedLen == 2      \* coordinates per set_cells call
MaxTickDim == 4      \* widths and heights of SpecTick are 3 .. MaxTickDim
MaxTickCells == 12   \* a store of SpecTick holds at most MaxTickCells cells
MaxRleLen == 4       \* characters of a decoded text
ShapeDim == 2        \* width and height of the universe of SpecShape
MaxCount == 3        \* count of a symbol handed to grow_pattern
MaxGrown == 3        \* symbols handed to grow_pattern in a row
MaxShifted == 4      \* shift is called on coordinates 0 .. MaxShifted

\* u32 is modelled as an unsigned integer of 30 bits, the widest for which
\* every sum the model forms fits the 32-bit signed integers of TLC
WordBits == 32 - 2
TwoToW == 2 ^ WordBits
U32Max == TwoToW - 1
BigDim == 2 ^ (WordBits \div 2)   \* the least d with d * d > U32Max

(***************************************************************************)
(* u32 arithmetic.                                                         *)
(***************************************************************************)
AddOverflows(a, b) == a + b > U32Max
MulOverflows(a, b) == b # 0 /\ a > U32Max \div b
WrappingAdd(a, b) == (a + b) % TwoToW
WrappingMul(a, b) == (a * b) % TwoToW

\* whether the build checks overflow, where a call overflows: a build with
\* overflow checks panics there, a build without them goes on with the
\* wrapped value
OverflowChecks(ovf) == IF ovf THEN BOOLEAN ELSE {FALSE}

(***************************************************************************)
(* BitVec                                                                  *)
(***************************************************************************)
from_elem(nbits, bit) == [i \in 1 .. nbits |-> bit]

\* BitVec::get: None outside the vector
InRange(cs, idx) == idx < Len(cs)
get(cs, idx) == cs[idx + 1]
\* BitVec::set, for idx in range (it asserts idx < nbits)
set(cs, idx, bit) == [cs EXCEPT ![idx + 1] = bit]

(***************************************************************************)
(* Universe                                                                *)
(***************************************************************************)
\* fn get_index(&self, row, column) = row * self.width + column
get_index(w, row, column) == (row * w + column) % TwoToW

\* set_cells flipping the bit of every listed coordinate instead of setting it
set_cells_toggling(cs, w, h, cells_alive) ==
    LET idx(k) == get_index(w, cells_alive[k][1] % w, cells_alive[k][2] % h)
        panics(k) == w = 0 \/ h = 0 \/ ~InRange(cs, idx(k))
        panicking == { k \in 1 .. Len(cells_alive) : panics(k) }
        done == IF panicking = {}
                THEN Len(cells_alive)
                ELSE (CHOOSE k \in panicking : \A j \in panicking : k <= j) - 1
    IN  [cells |-> [i \in 1 .. Len(cs) |->
                      cs[i] # (\E k \in 1 .. done : idx(k) = i - 1)],
         panicked |-> panicking # {}]

\* fn set_cells(&mut self, cells_alive): the store after the loop, and whether
\* the loop panicked.  The k-th iteration panics on x % 0, on y % 0 and on
\* BitVec::set's assert of idx < nbits; the iterations before the first that
\* panics have set their bits.
set_cells(cs, w, h, cells_alive) ==
    LET idx(k) == LET x == cells_alive[k][1]
                      y == cells_alive[k][2]
                      x_scaled == x % w
                      y_scaled == y % h
                  IN  get_index(w, x_scaled, y_scaled)
        panics(k) == w = 0 \/ h = 0 \/ ~InRange(cs, idx(k))
        panicking == { k \in 1 .. Len(cells_alive) : panics(k) }
        done == IF panicking = {}
                THEN Len(cells_alive)
                ELSE (CHOOSE k \in panicking : \A j \in panicking : k <= j) - 1
    IN  [cells |-> [i \in 1 .. Len(cs) |-> cs[i] \/ \E k \in 1 .. done : idx(k) = i - 1],
         panicked |-> panicking # {}]

\* live_neighbor_count reading only the neighbours inside the grid (no wrap)
live_neighbor_count_clipped(cs, w, h, row, column) ==
    Cardinality({ d \in {-1, 0, 1} \X {-1, 0, 1} :
                    /\ d # <<0, 0>>
                    /\ row + d[1] \in 0 .. h - 1
                    /\ column + d[2] \in 0 .. w - 1
                    /\ get(cs, get_index(w, row + d[1], column + d[2])) })

\* live_neighbor_count skipping every delta pair that leads back to the cell
live_neighbor_count_excluding_self(cs, w, h, row, column) ==
    LET delta_rows == <<h - 1, 0, 1>>
        delta_cols == <<w - 1, 0, 1>>
    IN  Cardinality({ d \in (1 .. 3) \X (1 .. 3) :
                        LET neighbor_row == (row + delta_rows[d[1]]) % h
                            neighbor_col == (column + delta_cols[d[2]]) % w
                        IN  /\ ~(neighbor_row = row /\ neighbor_col = column)
                            /\ get(cs, get_index(w, neighbor_row, neighbor_col)) })

\* fn live_neighbor_count(&self, row, column), over the store cs of a w x h
\* universe: one read per pair of deltas other than the pair (0, 0).
live_neighbor_count(cs, w, h, row, column) ==
    LET delta_rows == <<h - 1, 0, 1>>
        delta_cols == <<w - 1, 0, 1>>
        counted == { d \in (1 .. 3) \X (1 .. 3) :
                       /\ ~(delta_rows[d[1]] = 0 /\ delta_cols[d[2]] = 0)
                       /\ LET neighbor_row == (row + delta_rows[d[1]]) % h
                              neighbor_col == (column + delta_cols[d[2]]) % w
                              idx == get_index(w, neighbor_row, neighbor_col)
                          IN  get(cs, idx) }
    IN  Cardinality(counted)

\* the match of tick with a birth on every count up to three
next_cell_birth_up_to_three(cell, count) ==
    IF cell /\ count < 2 THEN FALSE
    ELSE IF cell /\ (count = 2 \/ count = 3) THEN TRUE
    ELSE IF cell /\ count > 3 THEN FALSE
    ELSE IF ~cell /\ count <= 3 THEN TRUE
    ELSE cell

\* the match of tick
next_cell(cell, count) ==
    IF cell /\ count < 2 THEN FALSE
    ELSE IF cell /\ (count = 2 \/ count = 3) THEN TRUE
    ELSE IF cell /\ count > 3 THEN FALSE
    ELSE IF ~cell /\ count = 3 THEN TRUE
    ELSE cell

\* the loops of tick from the k-th cell in row-major order on: every read is
\* of self.cells (cs), every write is to next
RECURSIVE tick_from(_, _, _, _, _)
tick_from(cs, w, h, k, next) ==
    IF k >= w * h
    THEN next
    ELSE LET row == k \div w
             col == k % w
             idx == get_index(w, row, col)
             cell == get(cs, idx)
             count == live_neighbor_count(cs, w, h, row, col)
         IN  tick_from(cs, w, h, k + 1, set(next, idx, next_cell(cell, count)))

\* tick updating self.cells in place: every read is of the store as written so far
RECURSIVE tick_in_place_from(_, _, _, _)
tick_in_place_from(w, h, k, next) ==
    IF k >= w * h
    THEN next
    ELSE LET row == k \div w
             col == k % w
             idx == get_index(w, row, col)
             cell == get(next, idx)
             count == live_neighbor_count(next, w, h, row, col)
         IN  tick_in_place_from(w, h, k + 1, set(next, idx, next_cell(cell, count)))

tick_in_place(cs, w, h) == tick_in_place_from(w, h, 0, cs)

\* fn tick(&mut self): next = self.cells.clone(); the loops; self.cells = next
tick(cs, w, h) == tick_from(cs, w, h, 0, cs)

(***************************************************************************)
(* parsers: the decoder                                                    *)
(***************************************************************************)
DigitChars == <<"0", "1", "2", "3", "4", "5", "6", "7", "8", "9">>
IsDigit(c) == \E d \in 1 .. 10 : DigitChars[d] = c
DigitValue(c) == (CHOOSE d \in 1 .. 10 : DigitChars[d] = c) - 1

\* enum RleSymbol { Dollar(u32), B(u32), O(u32) }
RleSymbol(tag, n) == [tag |-> tag, n |-> n]

\* nom::character::complete::digit0: the length of the longest prefix of digits
RECURSIVE digit0(_)
digit0(input) ==
    IF input # <<>> /\ IsDigit(Head(input)) THEN 1 + digit0(Tail(input)) ELSE 0

\* str::parse::<u32> of a non-empty digit string: its decimal value, which is
\* an Err (here -1) when it exceeds u32::MAX
RECURSIVE DecimalValue(_, _)
DecimalValue(digits, acc) ==
    IF digits = <<>> THEN acc
    ELSE DecimalValue(Tail(digits), 10 * acc + DigitValue(Head(digits)))

parse_u32(num_str) ==
    LET v == DecimalValue(num_str, 0) IN IF v > U32Max THEN -1 ELSE v

\* IResult<&str, T>: Ok((rest, out)), Err, or the panic of an unwrap
Ok(rest, out) == [kind |-> "Ok", rest |-> rest, out |-> out]
Err(rest) == [kind |-> "Err", rest |-> rest, out |-> <<>>]
Panic == [kind |-> "Panic", rest |-> <<>>, out |-> <<>>]

\* parse_rle_symbol whose count without digits is 0
parse_rle_symbol_default_zero(input) ==
    LET nd == digit0(input)
        num_str == SubSeq(input, 1, nd)
        i == SubSeq(input, nd + 1, Len(input))
        count == IF num_str = <<>> THEN 0 ELSE parse_u32(num_str)
    IN  IF count < 0 THEN Panic
        ELSE IF i = <<>> THEN Err(i)
        ELSE IF Head(i) = "$" THEN Ok(Tail(i), RleSymbol("Dollar", count))
        ELSE IF Head(i) = "b" THEN Ok(Tail(i), RleSymbol("B", count))
        ELSE IF Head(i) = "o" THEN Ok(Tail(i), RleSymbol("O", count))
        ELSE Err(i)

\* fn parse_rle_symbol(input)
parse_rle_symbol(input) ==
    LET nd == digit0(input)
        num_str == SubSeq(input, 1, nd)
        i == SubSeq(input, nd + 1, Len(input))
        count == IF num_str = <<>> THEN 1 ELSE parse_u32(num_str)
    IN  IF count < 0 THEN Panic
        ELSE IF i = <<>> THEN Err(i)
        ELSE IF Head(i) = "$" THEN Ok(Tail(i), RleSymbol("Dollar", count))
        ELSE IF Head(i) = "b" THEN Ok(Tail(i), RleSymbol("B", count))
        ELSE IF Head(i) = "o" THEN Ok(Tail(i), RleSymbol("O", count))
        ELSE Err(i)

\* nom::multi::many1 after its first success: an Err of the parser ends the
\* loop with what was parsed so far and the input the parser failed on
RECURSIVE many1_loop(_, _)
many1_loop(i, acc) ==
    LET r == parse_rle_symbol(i)
    IN  IF r.kind = "Panic" THEN Panic
        ELSE IF r.kind = "Err" THEN Ok(i, acc)
        ELSE IF Len(r.rest) = Len(i) THEN Err(i)
        ELSE many1_loop(r.rest, Append(acc, r.out))

\* fn parse_rle_string(input) = many1(parse_rle_symbol)(input)
parse_rle_string(input) ==
    LET first == parse_rle_symbol(input)
    IN  IF first.kind = "Ok" THEN many1_loop(first.rest, <<first.out>>) ELSE first

\* grow_pattern whose Dollar leaves the column of the cursor where it is
grow_pattern_keeping_column(sym, off, alive) ==
    IF sym.tag = "B"
    THEN [offset |-> <<WrappingAdd(off[1], sym.n), off[2]>>, alive_cells |-> alive,
          ovf |-> AddOverflows(off[1], sym.n), panic_offset |-> off]
    ELSE IF sym.tag = "O"
    THEN LET end == WrappingAdd(off[1], sym.n)
             run == [j \in 1 .. (IF end > off[1] THEN end - off[1] ELSE 0) |->
                        <<off[1] + j - 1, off[2]>>]
         IN  [offset |-> <<IF end > off[1] THEN end ELSE off[1], off[2]>>,
              alive_cells |-> alive \o run,
              ovf |-> AddOverflows(off[1], sym.n), panic_offset |-> off]
    ELSE [offset |-> <<off[1], WrappingAdd(off[2], sym.n)>>, alive_cells |-> alive,
          ovf |-> AddOverflows(off[2], sym.n), panic_offset |-> off]

\* fn grow_pattern(&self, offset, alive_cells): the cursor and the list after
\* the call in a build that wraps, whether a u32 addition overflowed, and the
\* cursor a build with overflow checks panics at
grow_pattern(sym, off, alive) ==
    IF sym.tag = "B"
    THEN [offset |-> <<WrappingAdd(off[1], sym.n), off[2]>>, alive_cells |-> alive,
          ovf |-> AddOverflows(off[1], sym.n), panic_offset |-> off]
    ELSE IF sym.tag = "O"
    THEN LET end == WrappingAdd(off[1], sym.n)
             run == [j \in 1 .. (IF end > off[1] THEN end - off[1] ELSE 0) |->
                        <<off[1] + j - 1, off[2]>>]
         IN  [offset |-> <<IF end > off[1] THEN end ELSE off[1], off[2]>>,
              alive_cells |-> alive \o run,
              ovf |-> AddOverflows(off[1], sym.n), panic_offset |-> off]
    ELSE [offset |-> <<0, WrappingAdd(off[2], sym.n)>>, alive_cells |-> alive,
          ovf |-> AddOverflows(off[2], sym.n), panic_offset |-> <<0, off[2]>>]

\* the loop of from_rle_string over the parsed atoms
RECURSIVE grow_all(_, _, _, _)
grow_all(atoms, off, alive, ovf) ==
    IF atoms = <<>>
    THEN [offset |-> off, alive_cells |-> alive, ovf |-> ovf]
    ELSE LET g == grow_pattern(Head(atoms), off, alive)
         IN  grow_all(Tail(atoms), g.offset, g.alive_cells, ovf \/ g.ovf)

\* fn Shape::from_rle_string(rle_string): parse_rle_string(..).unwrap().1 grown
\* from offset (0, 0); the unwrap panics on an Err
from_rle_string(s) ==
    LET r == parse_rle_string(s)
    IN  IF r.kind = "Ok"
        THEN LET g == grow_all(r.out, <<0, 0>>, <<>>, FALSE)
             IN  [kind |-> "Ok", alive_cells |-> g.alive_cells, offset |-> g.offset,
                  ovf |-> g.ovf]
        ELSE [kind |-> "Panic", alive_cells |-> <<>>, offset |-> <<0, 0>>,
              ovf |-> FALSE]

\* fn Shape::shift(&mut self, shift), in a build that wraps, and whether a u32
\* addition overflowed
shift(alive, by) ==
    [alive_cells |-> [k \in 1 .. Len(alive) |->
                        <<WrappingAdd(alive[k][1], by[1]), WrappingAdd(alive[k][2], by[2])>>],
     ovf |-> \E k \in 1 .. Len(alive) :
                AddOverflows(alive[k][1], by[1]) \/ AddOverflows(alive[k][2], by[2])]

(***************************************************************************)
(* The operations                                                          *)
(***************************************************************************)
\* new filling the store with live cells
new_alive(h, w, checks) ==
    IF checks /\ MulOverflows(w, h)
    THEN [width |-> 0, height |-> 0, cells |-> <<>>, status |-> "panicked"]
    ELSE [width |-> w, height |-> h, cells |-> from_elem(WrappingMul(w, h), TRUE),
          status |-> "ok"]

\* pub fn new(height, width) -> Universe, in a build with overflow checks
\* (checks) or without: the former panics when width * height overflows and
\* returns no universe
new(h, w, checks) ==
    IF checks /\ MulOverflows(w, h)
    THEN [width |-> 0, height |-> 0, cells |-> <<>>, status |-> "panicked"]
    ELSE [width |-> w, height |-> h, cells |-> from_elem(WrappingMul(w, h), FALSE),
          status |-> "ok"]

\* the universe is the one Universe::new(h, w) returned; nothing is grown or
\* decoded yet, and the text to decode is s
Created(h, w, s) ==
    /\ \E checks \in OverflowChecks(MulOverflows(w, h)) :
          LET u == new(h, w, checks)
          IN  /\ width = u.width
              /\ height = u.height
              /\ cells = u.cells
              /\ status = u.status
    /\ called = "new"
    /\ offset = <<0, 0>>
    /\ alive_cells = <<>>
    /\ grown = <<>>
    /\ rle_string = s
    /\ returned = Err(<<>>)

\* set_width reallocating the store only when its length changes
SetWidthKeepingStore(w) ==
    /\ status = "ok"
    /\ WrappingMul(w, height) <= MaxCells
    /\ called' = "set_width"
    /\ width' = w
    /\ cells' = IF WrappingMul(w, height) = Len(cells)
                THEN cells
                ELSE from_elem(WrappingMul(w, height), FALSE)
    /\ status' = "ok"
    /\ UNCHANGED <<height, decoder>>

\* pub fn set_width(&mut self, width): the width is assigned before the
\* product is formed
SetWidth(w) ==
    /\ status = "ok"
    /\ WrappingMul(w, height) <= MaxCells
    /\ called' = "set_width"
    /\ width' = w
    /\ \E checks \in OverflowChecks(MulOverflows(w, height)) :
          IF checks
          THEN cells' = cells /\ status' = "panicked"
          ELSE cells' = from_elem(WrappingMul(w, height), FALSE) /\ status' = "ok"
    /\ UNCHANGED <<height, decoder>>

\* pub fn set_height(&mut self, height)
SetHeight(h) ==
    /\ status = "ok"
    /\ WrappingMul(width, h) <= MaxCells
    /\ called' = "set_height"
    /\ height' = h
    /\ \E checks \in OverflowChecks(MulOverflows(width, h)) :
          IF checks
          THEN cells' = cells /\ status' = "panicked"
          ELSE cells' = from_elem(WrappingMul(width, h), FALSE) /\ status' = "ok"
    /\ UNCHANGED <<width, decoder>>

\* pub fn set_cells(&mut self, cells_alive)
SetCells(cells_alive) ==
    /\ status = "ok"
    /\ called' = "set_cells"
    /\ LET r == set_cells(cells, width, height, cells_alive)
       IN  /\ cells' = r.cells
           /\ status' = IF r.panicked THEN "panicked" ELSE "ok"
    /\ UNCHANGED <<width, height, decoder>>

\* pub fn set_rle_shape(&mut self, rle_string, x, y): from_rle_string, shift,
\* set_cells
SetRleShape(s, x, y) ==
    /\ status = "ok"
    /\ called' = "set_rle_shape"
    /\ rle_string' = s
    /\ LET shape == from_rle_string(s)
           shifted == shift(shape.alive_cells, <<x, y>>)
       IN  IF shape.kind = "Panic"
           THEN cells' = cells /\ status' = "panicked"
           ELSE \E checks \in OverflowChecks(shape.ovf \/ shifted.ovf) :
                  IF checks
                  THEN cells' = cells /\ status' = "panicked"
                  ELSE LET r == set_cells(cells, width, height, shifted.alive_cells)
                       IN  /\ cells' = r.cells
                           /\ status' = IF r.panicked THEN "panicked" ELSE "ok"
    /\ UNCHANGED <<width, height, offset, alive_cells, grown, returned>>

\* pub fn tick(&mut self): a store shorter than width * height makes a
\* BitVec::get return None, whose unwrap panics before self.cells is assigned
Tick ==
    /\ status = "ok"
    /\ called' = "tick"
    /\ IF Len(cells) < width * height
       THEN cells' = cells /\ status' = "panicked"
       ELSE cells' = tick(cells, width, height) /\ status' = "ok"
    /\ UNCHANGED <<width, height, decoder>>

\* parse_rle_symbol(rle_string), called on its own
ParseRleSymbol ==
    /\ status = "ok"
    /\ called' = "parse_rle_symbol"
    /\ LET r == parse_rle_symbol(rle_string)
       IN  IF r.kind = "Panic"
           THEN returned' = returned /\ status' = "panicked"
           ELSE returned' = r /\ status' = "ok"
    /\ UNCHANGED <<width, height, cells, offset, alive_cells, grown, rle_string>>

\* parse_rle_string(rle_string), called on its own
ParseRleString ==
    /\ status = "ok"
    /\ called' = "parse_rle_string"
    /\ LET r == parse_rle_string(rle_string)
       IN  IF r.kind = "Panic"
           THEN returned' = returned /\ status' = "panicked"
           ELSE returned' = r /\ status' = "ok"
    /\ UNCHANGED <<width, height, cells, offset, alive_cells, grown, rle_string>>

\* Shape::from_rle_string(rle_string), called on its own
FromRleString ==
    /\ status = "ok"
    /\ called' = "from_rle_string"
    /\ LET shape == from_rle_string(rle_string)
       IN  IF shape.kind = "Panic"
           THEN returned' = returned /\ status' = "panicked"
           ELSE \E checks \in OverflowChecks(shape.ovf) :
                  IF checks
                  THEN returned' = returned /\ status' = "panicked"
                  ELSE returned' = shape /\ status' = "ok"
    /\ UNCHANGED <<width, height, cells, offset, alive_cells, grown, rle_string>>

\* the Shape that from_rle_string returned, or that shift has left
HoldsShape == called \in {"from_rle_string", "shift"}

\* shape.shift(by) on the Shape held: a build with overflow checks panics at
\* the first addition that overflows, a build without them wraps it
Shift(by) ==
    /\ status = "ok"
    /\ HoldsShape
    /\ \A k \in 1 .. Len(returned.alive_cells) :
          returned.alive_cells[k][1] <= MaxShifted /\ returned.alive_cells[k][2] <= MaxShifted
    /\ called' = "shift"
    /\ LET shifted == shift(returned.alive_cells, by)
       IN  \E checks \in OverflowChecks(shifted.ovf) :
             IF checks
             THEN returned' = returned /\ status' = "panicked"
             ELSE /\ returned' = [returned EXCEPT !.alive_cells = shifted.alive_cells]
                  /\ status' = "ok"
    /\ UNCHANGED <<width, height, cells, offset, alive_cells, grown, rle_string>>

\* sym.grow_pattern(&mut offset, &mut alive_cells), called on its own
GrowPattern(sym) ==
    /\ status = "ok"
    /\ Len(grown) < MaxGrown
    /\ called' = "grow_pattern"
    /\ grown' = Append(grown, sym)
    /\ LET g == grow_pattern(sym, offset, alive_cells)
       IN  \E checks \in OverflowChecks(g.ovf) :
             IF checks
             THEN /\ offset' = g.panic_offset
                  /\ alive_cells' = alive_cells
                  /\ status' = "panicked"
             ELSE /\ offset' = g.offset
                  /\ alive_cells' = g.alive_cells
                  /\ status' = "ok"
    /\ UNCHANGED <<width, height, cells, rle_string, returned>>

(***************************************************************************)
(* Spec: a universe of at most MaxCells cells under set_width, set_height, *)
(* set_cells and tick.                                                     *)
(***************************************************************************)
Dims == (0 .. MaxDim) \cup {BigDim}
Coords == (0 .. MaxCoord) \X (0 .. MaxCoord)
CoordLists == UNION { [1 .. k -> Coords] : k \in 0 .. MaxSeedLen }

Init ==
    \E h \in Dims, w \in Dims : WrappingMul(w, h) <= MaxCells /\ Created(h, w, <<>>)

Next ==
    \/ \E w \in Dims : SetWidth(w)
    \/ \E h \in Dims : SetHeight(h)
    \/ \E cells_alive \in CoordLists : SetCells(cells_alive)
    \/ Tick

Spec == Init /\ [][Next]_vars

(***************************************************************************)
(* SpecTick: the universes of width and height 3 .. MaxTickDim and at most *)
(* MaxTickCells cells under set_cells and tick.                            *)
(***************************************************************************)
TickDims == 3 .. MaxTickDim
TickSeeds == {<<>>} \cup { <<c>> : c \in (0 .. MaxTickDim - 1) \X (0 .. MaxTickDim - 1) }

InitTick ==
    \E h \in TickDims, w \in TickDims : w * h <= MaxTickCells /\ Created(h, w, <<>>)

NextTick ==
    \/ \E cells_alive \in TickSeeds : SetCells(cells_alive)
    \/ Tick

SpecTick == InitTick /\ [][NextTick]_vars

(***************************************************************************)
(* SpecRle: the decoder's functions on every text of at most MaxRleLen     *)
(* characters.                                                             *)
(***************************************************************************)
RleAlphabet == {"b", "o", "$", "0", "3", "x"}
RleStrings == UNION { [1 .. k -> RleAlphabet] : k \in 0 .. MaxRleLen }

\* a dead run of u32::MAX cells and one of u32::MAX + 1 cells (the digits are
\* those of U32Max and of TwoToW)
LongCountTexts ==
    { <<"1", "0", "7", "3", "7", "4", "1", "8", "2", "3", "b">>,
      <<"1", "0", "7", "3", "7", "4", "1", "8", "2", "4", "b">>,
      <<"o", "1", "0", "7", "3", "7", "4", "1", "8", "2", "4", "b">> }

InitRle == \E s \in RleStrings \cup LongCountTexts : Created(0, 0, s)

NextRle ==
    \/ ParseRleSymbol
    \/ ParseRleString
    \/ FromRleString

SpecRle == InitRle /\ [][NextRle]_vars

(***************************************************************************)
(* SpecShape: set_rle_shape on a universe of ShapeDim x ShapeDim cells,    *)
(* for texts inside and outside the grammar.                               *)
(***************************************************************************)
ShapeTexts ==
    { <<"o">>, <<"b", "o">>, <<"3", "o">>, <<"o", "$", "o">>,
      <<>>, <<"x">>, <<"3", "x">>, <<"o", "3">>, <<"b", "o", "3">>,
      <<"b", "o", "3", "x">> }
Shifts == {0, U32Max}

InitShape == Created(ShapeDim, ShapeDim, <<>>)

NextShape == \E s \in ShapeTexts, x \in Shifts, y \in Shifts : SetRleShape(s, x, y)

SpecShape == InitShape /\ [][NextShape]_vars

(***************************************************************************)
(* SpecGrow: grow_pattern on at most MaxGrown symbols of counts            *)
(* 0 .. MaxCount, and of BigCount dead cells or rows, from the cursor      *)
(* (0, 0) and the empty list.                                              *)
(***************************************************************************)
BigCount == 2 ^ (WordBits - 1)   \* twice this count overflows a cursor
Symbols ==
    { RleSymbol(tag, n) : tag \in {"B", "O", "Dollar"}, n \in 0 .. MaxCount }
        \cup { RleSymbol(tag, BigCount) : tag \in {"B", "Dollar"} }

InitGrow == Created(0, 0, <<>>)

NextGrow == \E sym \in Symbols : GrowPattern(sym)

SpecGrow == InitGrow /\ [][NextGrow]_vars

(***************************************************************************)
(* SpecShift: from_rle_string on a few patterns and shift of the Shape it  *)
(* returns, by small offsets and by u32::MAX.                              *)
(***************************************************************************)
ShiftTexts ==
    { <<"o">>, <<"b", "o">>, <<"3", "o">>, <<"o", "$", "b", "o">> }
ShiftBy == {0, 1, 2, U32Max} \X {0, 1, 2, U32Max}

InitShift == \E s \in ShiftTexts : Created(0, 0, s)

NextShift ==
    \/ FromRleString
    \/ \E by \in ShiftBy : Shift(by)

SpecShift == InitShift /\ [][NextShift]_vars

(***************************************************************************)
(* The properties                                                          *)
(***************************************************************************)
AllDead(cs) == \A i \in 1 .. Len(cs) : ~cs[i]
LiveAt(cs, w, row, col) == cs[row * w + col + 1]

\* the 8 cells around (row, col) on the torus of h rows and w columns
ToroidalNeighbours(w, h, row, col) ==
    { <<(row + dr) % h, (col + dc) % w>> : dr \in {-1, 0, 1}, dc \in {-1, 0, 1} }
        \ {<<row, col>>}

LiveNeighbours(cs, w, h, row, col) ==
    Cardinality({ n \in ToroidalNeighbours(w, h, row, col) : LiveAt(cs, w, n[1], n[2]) })

\* Conway's rule: whether a cell is alive in the next generation
LifeRule(alive, n) == (alive /\ n \in {2, 3}) \/ (~alive /\ n = 3)

\* C1: on a grid of width >= 3 and height >= 3, every cell after tick() is
\* the Life rule applied to the cell's state and to the number of live cells
\* among its 8 toroidal neighbours, both taken in the generation before the
\* tick; no cell's new value depends on a value written during the tick.
C1_TickAppliesLifeRule ==
    [][(called' = "tick" /\ status' = "ok" /\ width >= 3 /\ height >= 3) =>
         \A row \in 0 .. height - 1, col \in 0 .. width - 1 :
            LiveAt(cells', width, row, col)
              = LifeRule(LiveAt(cells, width, row, col),
                         LiveNeighbours(cells, width, height, row, col))]_vars

\* a tick has run on a grid that is not square and has left live cells
C1_Witness ==
    /\ called = "tick" /\ status = "ok"
    /\ width >= 3 /\ height >= 3 /\ width # height
    /\ ~AllDead(cells)

\* the store the claims expect of set_cells: the bit of row y mod h, column
\* x mod w is set for every listed (x, y), the other bits are as they were
SeededAsClaimed(cs, w, h, cells_alive) ==
    [i \in 1 .. Len(cs) |->
        cs[i] \/ \E k \in 1 .. Len(cells_alive) :
                    (cells_alive[k][2] % h) * w + (cells_alive[k][1] % w) = i - 1]

\* C2 as claimed: a set_cells that returns, on a grid of width >= 1 and
\* height >= 1, has set exactly the cells of row y mod height, column
\* x mod width of the listed (x, y) and left the others as they were.
C2_SeedSetsRowYColumnX ==
    [][\A cells_alive \in CoordLists :
         (SetCells(cells_alive) /\ status' = "ok" /\ width >= 1 /\ height >= 1) =>
             cells' = SeededAsClaimed(cells, width, height, cells_alive)]_vars

\* C3 as claimed: on a grid of width >= 1 and height >= 1, square or not,
\* set_cells never fails (its index is always inside the store).
C3_SeedNeverFails ==
    (called = "set_cells" /\ width >= 1 /\ height >= 1) => status = "ok"

\* the grammar (digits? tag)+ : a non-empty text of digits and tags that ends
\* in a tag
IsTag(c) == c \in {"b", "o", "$"}
MatchesGrammar(s) ==
    /\ s # <<>>
    /\ \A k \in 1 .. Len(s) : IsDigit(s[k]) \/ IsTag(s[k])
    /\ IsTag(s[Len(s)])

\* C4 as claimed: set_rle_shape of a text outside the grammar fails and
\* leaves every cell as it was.
C4_MalformedTextLeavesGrid ==
    [][(called' = "set_rle_shape" /\ ~MatchesGrammar(rle_string')) =>
         (status' = "panicked" /\ cells' = cells)]_vars

\* C5 as claimed: in every state the operations reach, the store holds
\* width * height cells.
C5_StoreLength == status = "ok" => Len(cells) = width * height

\* C6: after set_width or set_height every cell is Dead, whatever the store
\* held before and also when the dimension does not change.
C6_ResizeClears ==
    (called \in {"set_width", "set_height"} /\ status = "ok") => AllDead(cells)

\* a resize has run and the universe has cells
C6_Witness ==
    /\ called \in {"set_width", "set_height"} /\ status = "ok"
    /\ Len(cells) > 0

\* C7: every cell of the store of a universe that new has just returned is
\* Dead, for every pair of dimensions.
C7_NewIsBlank == (called = "new" /\ status = "ok") => AllDead(cells)

\* new has returned a universe that has cells and is not square
C7_Witness ==
    /\ called = "new" /\ status = "ok"
    /\ Len(cells) > 0 /\ width # height

\* C8: on a grid of width >= 3 and height >= 3, the neighbour count of a cell
\* of the first or last row, or of the first or last column, is the number of
\* live cells among its 8 neighbours on the torus, those of the opposite edge
\* included.
C8_ToroidalWrap ==
    (status = "ok" /\ width >= 3 /\ height >= 3) =>
        \A row \in 0 .. height - 1, col \in 0 .. width - 1 :
            (row \in {0, height - 1} \/ col \in {0, width - 1}) =>
                live_neighbor_count(cells, width, height, row, col)
                  = LiveNeighbours(cells, width, height, row, col)

\* rows 0 and 1 are dead, a cell of the last row is alive, and the cell of
\* row 0 in its column counts it
C8_Witness ==
    /\ status = "ok" /\ width >= 3 /\ height >= 3
    /\ \A col \in 0 .. width - 1 :
          ~LiveAt(cells, width, 0, col) /\ ~LiveAt(cells, width, 1, col)
    /\ \E col \in 0 .. width - 1 :
          /\ LiveAt(cells, width, height - 1, col)
          /\ live_neighbor_count(cells, width, height, 0, col) >= 1

\* C9 as claimed: the single cell of a 1 x 1 universe has no live neighbour,
\* alive or dead.
C9_SingleCellCountsNothing ==
    (status = "ok" /\ width = 1 /\ height = 1) =>
        live_neighbor_count(cells, width, height, 0, 0) = 0

\* C9, amended: the single cell of a 1 x 1 universe has 0 live neighbours
\* when it is Dead and 5 when it is Alive (the five delta pairs that are not
\* read as (0, 0) all lead back to the cell).
C9_SingleCellCountsItself ==
    (status = "ok" /\ width = 1 /\ height = 1) =>
        live_neighbor_count(cells, width, height, 0, 0) = IF cells[1] THEN 5 ELSE 0

\* the cell of a 1 x 1 universe is alive
C9_Witness == status = "ok" /\ width = 1 /\ height = 1 /\ cells[1]

\* the cursor and the coordinates the pattern builder is specified to reach
\* from (0, 0), in unbounded arithmetic
RECURSIVE RefX(_)
RefX(syms) ==
    IF syms = <<>> THEN 0
    ELSE LET last == syms[Len(syms)]
         IN  IF last.tag = "Dollar" THEN 0 ELSE RefX(SubSeq(syms, 1, Len(syms) - 1)) + last.n

RECURSIVE RefY(_)
RefY(syms) ==
    IF syms = <<>> THEN 0
    ELSE LET last == syms[Len(syms)]
         IN  RefY(SubSeq(syms, 1, Len(syms) - 1)) + (IF last.tag = "Dollar" THEN last.n ELSE 0)

RECURSIVE RefCoords(_)
RefCoords(syms) ==
    IF syms = <<>> THEN <<>>
    ELSE LET last == syms[Len(syms)]
             front == SubSeq(syms, 1, Len(syms) - 1)
         IN  RefCoords(front) \o
             (IF last.tag = "O"
              THEN [j \in 1 .. last.n |-> <<RefX(front) + j - 1, RefY(front)>>]
              ELSE <<>>)

ExampleText == <<"2", "b", "o", "b", "o", "2", "3", "$", "4", "b", "2", "o">>
ExampleCoords == << <<2, 0>>, <<4, 0>>, <<4, 23>>, <<5, 23>> >>

\* C10 as claimed: for every symbol sequence, the builder started at (0, 0)
\* has built exactly the reference list and stands at the reference cursor,
\* and the text 2bobo23$4b2o yields (2,0), (4,0), (4,23), (5,23).
C10_BuilderMatchesReference ==
    /\ status = "ok" =>
          /\ alive_cells = RefCoords(grown)
          /\ offset = <<RefX(grown), RefY(grown)>>
    /\ from_rle_string(ExampleText).alive_cells = ExampleCoords

\* the reference cursor fits a u32 after every symbol of the sequence
RefFits(syms) ==
    \A k \in 1 .. Len(syms) :
        RefX(SubSeq(syms, 1, k)) <= U32Max /\ RefY(SubSeq(syms, 1, k)) <= U32Max

\* C10 on the symbol sequences that keep both components of the reference
\* cursor within a u32: the builder started at (0, 0) has built exactly the
\* reference list and stands at the reference cursor, and the text
\* 2bobo23$4b2o yields (2,0), (4,0), (4,23), (5,23).  (The claim as stated
\* fails only where an addition to the cursor overflows.)
C10_BuilderMatchesReferenceInRange ==
    /\ (status = "ok" /\ RefFits(grown)) =>
          /\ alive_cells = RefCoords(grown)
          /\ offset = <<RefX(grown), RefY(grown)>>
    /\ from_rle_string(ExampleText).alive_cells = ExampleCoords

\* a dead run, a row end and a run of two or more alive cells have been grown
C10_Witness ==
    /\ called = "grow_pattern" /\ status = "ok" /\ RefFits(grown)
    /\ \E i, j, k \in 1 .. Len(grown) :
          /\ grown[i].tag = "B" /\ grown[i].n >= 1
          /\ grown[j].tag = "Dollar" /\ grown[j].n >= 1
          /\ grown[k].tag = "O" /\ grown[k].n >= 2
    /\ Len(alive_cells) >= 2

\* the list the claims expect of shift: the k-th coordinate moved by exactly
\* (dx, dy), in unbounded arithmetic
ShiftedExactly(alive, by) ==
    [k \in 1 .. Len(alive) |-> <<alive[k][1] + by[1], alive[k][2] + by[2]>>]

\* C11 as claimed: shift by (dx, dy) never fails and leaves a list of the
\* same length and order whose k-th coordinate (x, y) has become exactly
\* (x + dx, y + dy), never a wrapped-around value, also when a sum exceeds
\* the range of a u32.
C11_ShiftIsTotalAndExact ==
    [][\A by \in ShiftBy :
         Shift(by) =>
             /\ status' = "ok"
             /\ returned'.alive_cells = ShiftedExactly(returned.alive_cells, by)]_vars

\* C12: for every store the operations reach and every coordinate list,
\* set_cells never turns a cell off (every cell Alive before the call is
\* Alive after it, also when the call fails part-way), and the same call made
\* a second time after one that returned leaves the store exactly as the
\* first call left it.
C12_SeedMonotonicIdempotent ==
    status = "ok" =>
        \A cells_alive \in CoordLists :
            LET first == set_cells(cells, width, height, cells_alive)
                again == set_cells(first.cells, width, height, cells_alive)
            IN  /\ Len(first.cells) = Len(cells)
                /\ \A i \in 1 .. Len(cells) : cells[i] => first.cells[i]
                /\ ~first.panicked => (~again.panicked /\ again.cells = first.cells)

\* set_cells has returned on a store with more live cells than one call sets
C12_Witness ==
    /\ called = "set_cells" /\ status = "ok"
    /\ Cardinality({ i \in 1 .. Len(cells) : cells[i] }) > MaxSeedLen

\* C14 as claimed: on a grid whose width or height is 0, tick and set_cells
\* (with any coordinate list) return without failure and leave the empty
\* store as it is.
C14_ZeroGridIsStatic ==
    ((width = 0 \/ height = 0) /\ called \in {"tick", "set_cells"}) =>
        (status = "ok" /\ cells = <<>>)

\* the symbols of the value the decoder returned
ReturnedSymbols ==
    IF called = "parse_rle_symbol" THEN <<returned.out>> ELSE returned.out

\* C15 as claimed: every symbol the decoder returns for a text it accepts
\* has a count of at least 1, also a text with the digits 0 before a tag.
C15_CountAtLeastOne ==
    (called \in {"parse_rle_symbol", "parse_rle_string"}
        /\ status = "ok" /\ returned.kind = "Ok") =>
        \A k \in 1 .. Len(ReturnedSymbols) : ReturnedSymbols[k].n >= 1

\* coordinate b comes after coordinate a top-to-bottom, then left-to-right
StrictlyAfter(a, b) == b[2] > a[2] \/ (b[2] = a[2] /\ b[1] > a[1])

\* C16 as claimed: the coordinates from_rle_string builds from a text the
\* decoder accepts are strictly increasing in (y, x) order, so none occurs
\* twice.
C16_CoordinatesStrictlyIncrease ==
    (called = "from_rle_string" /\ status = "ok") =>
        \A k \in 1 .. Len(returned.alive_cells) - 1 :
            StrictlyAfter(returned.alive_cells[k], returned.alive_cells[k + 1])

\* the grammar's reading of a text: its leading digits, whether an atom
\* (digits? tag) starts it, that atom's symbol and the text after the atom
LeadingDigits(s) ==
    CHOOSE k \in 0 .. Len(s) :
        /\ \A j \in 1 .. k : IsDigit(s[j])
        /\ k = Len(s) \/ ~IsDigit(s[k + 1])

StartsWithAtom(s) == LeadingDigits(s) < Len(s) /\ IsTag(s[LeadingDigits(s) + 1])

RECURSIVE DecimalOf(_)
DecimalOf(digits) ==
    IF digits = <<>> THEN 0
    ELSE 10 * DecimalOf(SubSeq(digits, 1, Len(digits) - 1)) + DigitValue(digits[Len(digits)])

TagOf(c) == IF c = "$" THEN "Dollar" ELSE IF c = "b" THEN "B" ELSE "O"

FirstAtom(s) ==
    LET k == LeadingDigits(s)
    IN  RleSymbol(TagOf(s[k + 1]), IF k = 0 THEN 1 ELSE DecimalOf(SubSeq(s, 1, k)))

AfterFirstAtom(s) == SubSeq(s, LeadingDigits(s) + 2, Len(s))

RECURSIVE AtomsOf(_)
AtomsOf(s) ==
    IF s = <<>> THEN <<>> ELSE <<FirstAtom(s)>> \o AtomsOf(AfterFirstAtom(s))

CountsFit(s) ==
    IF called = "parse_rle_symbol"
    THEN FirstAtom(s).n <= U32Max
    ELSE \A k \in 1 .. Len(AtomsOf(s)) : AtomsOf(s)[k].n <= U32Max

C18_AllDeadIsFixedPoint ==
    [][(Tick /\ AllDead(cells)) => (AllDead(cells') /\ Len(cells') = Len(cells))]_vars

\* a tick has returned on a grid that has cells, is not square and is all
\* dead
C18_Witness ==
    /\ called = "tick" /\ status = "ok"
    /\ Len(cells) > 0 /\ width # height
    /\ AllDead(cells)

====
